---- MODULE Spec2Model ----
(***************************************************************************)
(* Model of opt/function_caller.py: FunctionCaller and                     *)
(* EuclideanFunctionCaller.                                                *)
(*                                                                         *)
(* Coordinates are fixed point: a coordinate c stands for the real number  *)
(* c / Grid, so the unit cube is 0..Grid.  A point of the domain is one    *)
(* coordinate, a fidelity is a sequence of coordinates (one per dimension  *)
(* of the fidelity space).  Function values are fixed point in halves (a   *)
(* value v stands for v / 2), so the 0.5 of the uniform noise is Half.     *)
(* Python's None is the empty sequence <<>> for sequence-valued things,    *)
(* the string "None" for callables and the query-record id 0 for records.  *)
(***************************************************************************)
EXTENDS Integers, Sequences, FiniteSets, TLC

VARIABLES caller, room, heap, ghost, last

vars == <<caller, room, heap, ghost, last>>

\* ---------------------------------------------------------------- bounds
MaxDim == 4          \* largest fidelity-space dimensionality tried
NumLinspace == 3     \* points of the 1-d linspace (100 in the source)
NumPerDim2 == 2      \* cells per axis of the 2-d grid (25 in the source)
NumPerDim3 == 2      \* cells per axis of the 3-d grid (10 in the source)
NumRand3 == 1        \* random candidates in 3-d (1000 in the source)
NumRand4 == 1        \* random candidates in >= 4-d (4000 in the source)
MaxQinfos == 2       \* query records the host keeps at once, at most
MaxNoiseScale == 1   \* largest noise_scale tried

\* The resolution of the cube: every generated candidate is on the grid.
Grid == 2 * NumPerDim2 * NumPerDim3 * (NumLinspace - 1)

\* 0.5, in the halves function values are counted in (np.random.random() - 0.5)
Half == 1

\* 1.0 / _FIDEL_TOL
FidelTolInv == 100

\* ed.ed_utils.EVAL_ERROR_CODE: the distinguished value an objective returns
\* in place of a valid result.
EVAL_ERROR_CODE == -1

None == <<>>

RECURSIVE SumSeq(_)
SumSeq(s) == IF s = <<>> THEN 0 ELSE Head(s) + SumSeq(Tail(s))

\* ------------------------------------------------- the external collaborators
\* ed.domains.EuclideanDomain is its list of [lo, hi] bounds, one per
\* dimension; dim is their number.
DomainDim(dom) == Len(dom)

\* EuclideanDomain.is_a_member: every coordinate within its bounds.
IsAMember(dom, Z) ==
  /\ Len(Z) = Len(dom)
  /\ \A i \in DOMAIN dom : dom[i][1] <= Z[i] /\ Z[i] <= dom[i][2]

\* [[0, 1]] * dim
UnitCube(dim) == [i \in 1..dim |-> <<0, Grid>>]

\* utils.general_utils.map_to_cube: (x - lo) / (hi - lo), per coordinate.
map_to_cube(Z, bounds) ==
  [i \in DOMAIN Z |-> ((Z[i] - bounds[i][1]) * Grid) \div (bounds[i][2] - bounds[i][1])]

\* utils.general_utils.map_to_bounds: z * (hi - lo) + lo, per coordinate.
map_to_bounds(Z, bounds) ==
  [i \in DOMAIN Z |-> (Z[i] * (bounds[i][2] - bounds[i][1])) \div Grid + bounds[i][1]]

\* The raw spaces the callers are built on: [1, 3] on every axis.
RawBound == <<Grid, 3 * Grid>>
RawSpace(dim) == [i \in 1..dim |-> RawBound]

\* The opaque objectives.  "lin" is the sum of the coordinates it is handed;
\* "part" fails (returns the error sentinel) when the point it is handed is
\* above 1.0 and is "lin" below.  fidel is None on the single-fidelity call.
ApplyFunc(func, fidel, point) ==
  IF func = "part" /\ point[1] > Grid
    THEN EVAL_ERROR_CODE
    ELSE 2 * (SumSeq(fidel) + SumSeq(point))

\* The opaque fidelity-cost functions, all positive: increasing, constant and
\* decreasing in the coordinates.
CostFuncs == {"inc", "const", "dec"}

ApplyCostFunc(cf, fidel) ==
  CASE cf = "inc" -> 1 + SumSeq(fidel)
    [] cf = "dec" -> 1 + 3 * Grid * Len(fidel) - SumSeq(fidel)
    [] OTHER -> 5

\* ------------------------------------------------------------ the caller
NoCaller ==
  [cls |-> "None", func |-> "None", vectorised |-> FALSE,
   domain_is_normalised |-> FALSE, raw_domain |-> None, domain |-> None,
   noise_type |-> "no_noise", noise_scale |-> None, is_noisy |-> FALSE,
   is_mf |-> FALSE, raw_fidel_space |-> None, fidel_space |-> None,
   fidel_cost_func |-> "None", fidel_to_opt |-> None]

\* FunctionCaller._set_up_noise: the fields it sets, or the error it raises.
set_up_noise(noise_type, noise_scale) ==
  IF noise_type = "no_noise"
    THEN [outcome |-> "ok", is_noisy |-> FALSE, noise_scale |-> None]
    ELSE IF noise_type \in {"gauss", "uniform"}
      THEN [outcome |-> "ok", is_noisy |-> TRUE, noise_scale |-> noise_scale]
      ELSE [outcome |-> "NotImplementedError", is_noisy |-> TRUE,
            noise_scale |-> noise_scale]

\* FunctionCaller._mf_set_up: the fields it sets, or the error it raises.  The
\* three fidelity attributes exist on the object only when is_mf is set.
mf_set_up(fidel_space, fidel_cost_func, fidel_to_opt) ==
  IF fidel_space = None \/ fidel_cost_func = "None" \/ fidel_to_opt = None
    THEN IF fidel_space = None /\ fidel_cost_func = "None" /\ fidel_to_opt = None
      THEN [outcome |-> "ok", is_mf |-> FALSE, fidel_space |-> None,
            fidel_cost_func |-> "None", fidel_to_opt |-> None]
      ELSE [outcome |-> "ValueError", is_mf |-> FALSE, fidel_space |-> None,
            fidel_cost_func |-> "None", fidel_to_opt |-> None]
    ELSE [outcome |-> "ok", is_mf |-> TRUE, fidel_space |-> fidel_space,
          fidel_cost_func |-> fidel_cost_func, fidel_to_opt |-> fidel_to_opt]

\* FunctionCaller.__init__.  a: the arguments; pre: the fields a subclass set
\* before calling the super constructor.  The result is the outcome and the
\* object (which no one holds when the constructor raised).
FunctionCaller_init(a, pre) ==
  LET nz == set_up_noise(a.noise_type, a.noise_scale)
      mf == mf_set_up(a.fidel_space, a.fidel_cost_func, a.fidel_to_opt)
      obj == [pre EXCEPT !.func = a.func, !.domain = a.domain,
                         !.noise_type = a.noise_type,
                         !.noise_scale = nz.noise_scale,
                         !.is_noisy = nz.is_noisy,
                         !.is_mf = mf.is_mf,
                         !.fidel_space = mf.fidel_space,
                         !.fidel_cost_func = mf.fidel_cost_func,
                         !.fidel_to_opt = mf.fidel_to_opt]
  IN IF nz.outcome # "ok" THEN [outcome |-> nz.outcome, obj |-> NoCaller]
     ELSE IF mf.outcome # "ok" THEN [outcome |-> mf.outcome, obj |-> NoCaller]
     ELSE [outcome |-> "ok", obj |-> obj]

\* EuclideanFunctionCaller.get_normalised_fidel_coords
get_normalised_fidel_coords(c, Z) ==
  IF c.domain_is_normalised THEN map_to_cube(Z, c.raw_fidel_space) ELSE Z

\* EuclideanFunctionCaller.get_normalised_domain_coords
get_normalised_domain_coords(c, X) ==
  IF c.domain_is_normalised THEN map_to_cube(X, c.raw_domain) ELSE X

\* EuclideanFunctionCaller.get_raw_fidel_coords
get_raw_fidel_coords(c, Z) ==
  IF c.domain_is_normalised THEN map_to_bounds(Z, c.raw_fidel_space) ELSE Z

\* EuclideanFunctionCaller.get_raw_domain_coords
get_raw_domain_coords(c, X) ==
  IF c.domain_is_normalised THEN map_to_bounds(X, c.raw_domain) ELSE X

\* EuclideanFunctionCaller.__init__.  a carries raw_domain, raw_fidel_space
\* and raw_fidel_to_opt in place of domain, fidel_space and fidel_to_opt.
EuclideanFunctionCaller_init(a) ==
  LET pre0 == [NoCaller EXCEPT !.cls = "EuclideanFunctionCaller",
                               !.vectorised = a.vectorised,
                               !.domain_is_normalised = a.to_normalise_domain,
                               !.raw_domain = a.raw_domain]
      domain == IF a.to_normalise_domain THEN UnitCube(DomainDim(a.raw_domain))
                ELSE a.raw_domain
      pre1 == [pre0 EXCEPT !.raw_fidel_space = a.raw_fidel_space]
      fidel_space == IF a.raw_fidel_space = None THEN None
                     ELSE IF a.to_normalise_domain
                       THEN UnitCube(DomainDim(a.raw_fidel_space))
                       ELSE a.raw_fidel_space
      \* map_to_cube(None, bounds) does arithmetic on None
      bad_to_opt == /\ a.raw_fidel_space # None
                    /\ a.to_normalise_domain
                    /\ a.raw_fidel_to_opt = None
      fidel_to_opt == IF a.raw_fidel_space = None \/ bad_to_opt THEN None
                      ELSE get_normalised_fidel_coords(pre1, a.raw_fidel_to_opt)
      sup == [func |-> a.func, domain |-> domain, noise_type |-> a.noise_type,
              noise_scale |-> a.noise_scale, fidel_space |-> fidel_space,
              fidel_cost_func |-> a.fidel_cost_func,
              fidel_to_opt |-> fidel_to_opt]
  IN IF bad_to_opt THEN [outcome |-> "TypeError", obj |-> NoCaller]
     ELSE FunctionCaller_init(sup, IF a.raw_fidel_space = None THEN pre0 ELSE pre1)

\* The base class built directly: its fields besides those __init__ sets.
BasePre == [NoCaller EXCEPT !.cls = "FunctionCaller"]


\* ------------------------------------------------------------ evaluation
\* A query record (argparse.Namespace) is a function from the names of the
\* attributes it carries to their values.
Namespace == <<>>

hasattr(q, name) == name \in DOMAIN q

setattr(q, name, v) == (name :> v) @@ q

\* An invocation of the opaque objective or cost function, as the callee
\* sees it: the arguments and their layout ("col" after reshape((-1, 1))).
FCall(fidel, point, fshape, pshape) ==
  [fidel |-> fidel, point |-> point, fshape |-> fshape, pshape |-> pshape]

CCall(fidel, fshape) == [fidel |-> fidel, fshape |-> fshape]

\* What an evaluation hands back: outcome is "ok" or the exception raised;
\* vals and qids are the values and the records (heap indices) produced so
\* far; heap is the heap after the call; fcalls and ccalls are the objective
\* and cost-function invocations; draws holds, per evaluation, the noise
\* variates it drew.
EvalRes(outcome, vals, qids, h, fcalls, ccalls, draws) ==
  [outcome |-> outcome, vals |-> vals, qids |-> qids, heap |-> h,
   fcalls |-> fcalls, ccalls |-> ccalls, draws |-> draws]

Raise(exc, h) == EvalRes(exc, <<>>, <<>>, h, <<>>, <<>>, <<>>)

\* noise_adder_single, given the variate np.random hands back: normal() for
\* gauss, random() for uniform.
noise_adder_single(c, draw) ==
  IF c.noise_type = "gauss" THEN c.noise_scale[1] * draw
  ELSE c.noise_scale[1] * (draw - Half)

\* FunctionCaller._eval_single_common_wrap_up
eval_single_common_wrap_up_NoisyOnError(c, h, true_val, qinfo, noisy, caller_eval_cost, draw) ==
  LET drawn == noisy /\ c.is_noisy
      val == IF drawn THEN true_val + noise_adder_single(c, draw) ELSE true_val
      q0 == IF qinfo = 0 THEN Namespace ELSE h[qinfo]
      q1 == setattr(setattr(setattr(q0, "true_val", true_val), "val", val),
                    "caller_eval_cost", caller_eval_cost)
  IN EvalRes("ok", <<val>>,
             <<IF qinfo = 0 THEN Len(h) + 1 ELSE qinfo>>,
             IF qinfo = 0 THEN Append(h, q1) ELSE [h EXCEPT ![qinfo] = q1],
             <<>>, <<>>, <<IF drawn THEN <<draw>> ELSE <<>>>>)

eval_single_common_wrap_up_IgnoresFlag(c, h, true_val, qinfo, noisy, caller_eval_cost, draw) ==
  LET drawn == true_val # EVAL_ERROR_CODE /\ c.is_noisy
      val == IF true_val = EVAL_ERROR_CODE THEN EVAL_ERROR_CODE
             ELSE IF drawn THEN true_val + noise_adder_single(c, draw)
             ELSE true_val
      q0 == IF qinfo = 0 THEN Namespace ELSE h[qinfo]
      q1 == setattr(setattr(setattr(q0, "true_val", true_val), "val", val),
                    "caller_eval_cost", caller_eval_cost)
  IN EvalRes("ok", <<val>>,
             <<IF qinfo = 0 THEN Len(h) + 1 ELSE qinfo>>,
             IF qinfo = 0 THEN Append(h, q1) ELSE [h EXCEPT ![qinfo] = q1],
             <<>>, <<>>, <<IF drawn THEN <<draw>> ELSE <<>>>>)

eval_single_common_wrap_up(c, h, true_val, qinfo, noisy, caller_eval_cost, draw) ==
  LET drawn == true_val # EVAL_ERROR_CODE /\ noisy /\ c.is_noisy
      val == IF true_val = EVAL_ERROR_CODE THEN EVAL_ERROR_CODE
             ELSE IF drawn THEN true_val + noise_adder_single(c, draw)
             ELSE true_val
      q0 == IF qinfo = 0 THEN Namespace ELSE h[qinfo]
      q1 == setattr(setattr(setattr(q0, "true_val", true_val), "val", val),
                    "caller_eval_cost", caller_eval_cost)
  IN EvalRes("ok", <<val>>,
             <<IF qinfo = 0 THEN Len(h) + 1 ELSE qinfo>>,
             IF qinfo = 0 THEN Append(h, q1) ELSE [h EXCEPT ![qinfo] = q1],
             <<>>, <<>>, <<IF drawn THEN <<draw>> ELSE <<>>>>)

\* _get_true_val_from_func_at_point, of the class of c: the outcome, the value
\* and the objective invocation made.
get_true_val_from_func_at_point(c, point) ==
  IF c.cls = "EuclideanFunctionCaller"
    THEN LET raw_dom_coords == get_raw_domain_coords(c, point) IN
         IF ~IsAMember(c.raw_domain, raw_dom_coords)
           THEN [outcome |-> "AssertionError", val |-> 0, fcalls |-> <<>>]
           ELSE [outcome |-> "ok",
                 val |-> ApplyFunc(c.func, None, raw_dom_coords),
                 fcalls |-> <<FCall(None, raw_dom_coords, "flat",
                                    IF c.vectorised THEN "col" ELSE "flat")>>]
    ELSE [outcome |-> "ok", val |-> ApplyFunc(c.func, None, point),
          fcalls |-> <<FCall(None, point, "flat", "flat")>>]

\* _get_true_val_from_func_at_fidel_point, of the class of c.  The Euclidean
\* override reshapes local copies and then hands the objective coordinates
\* it unnormalises afresh.
get_true_val_from_func_at_fidel_point(c, fidel, point) ==
  IF c.cls = "EuclideanFunctionCaller"
    THEN LET raw_fidel_coords == get_raw_fidel_coords(c, fidel)
             raw_dom_coords == get_raw_domain_coords(c, point) IN
         IF \/ ~IsAMember(c.raw_fidel_space, raw_fidel_coords)
            \/ ~IsAMember(c.raw_domain, raw_dom_coords)
           THEN [outcome |-> "AssertionError", val |-> 0, fcalls |-> <<>>]
           ELSE [outcome |-> "ok",
                 val |-> ApplyFunc(c.func, get_raw_fidel_coords(c, fidel),
                                   get_raw_domain_coords(c, point)),
                 fcalls |-> <<FCall(get_raw_fidel_coords(c, fidel),
                                    get_raw_domain_coords(c, point),
                                    "flat", "flat")>>]
    ELSE [outcome |-> "ok", val |-> ApplyFunc(c.func, fidel, point),
          fcalls |-> <<FCall(fidel, point, "flat", "flat")>>]

\* FunctionCaller.eval_at_fidel_single
eval_at_fidel_single(c, h, fidel, point, qinfo, noisy, draw) ==
  IF ~c.is_mf THEN Raise("CalledMultiFidelOnSingleFidelCaller", h)
  ELSE LET tv == get_true_val_from_func_at_fidel_point(c, fidel, point) IN
    IF tv.outcome # "ok" THEN Raise(tv.outcome, h)
    ELSE LET cost_at_fidel == ApplyCostFunc(c.fidel_cost_func, fidel)
             w == eval_single_common_wrap_up(c, h, tv.val, qinfo, noisy,
                                             <<cost_at_fidel>>, draw)
             qid == w.qids[1]
             q == setattr(setattr(setattr(w.heap[qid], "fidel", fidel),
                                  "point", point),
                          "cost_at_fidel", cost_at_fidel)
         IN [w EXCEPT !.heap = [w.heap EXCEPT ![qid] = q],
                      !.fcalls = tv.fcalls,
                      !.ccalls = <<CCall(fidel, "flat")>>]

\* FunctionCaller.eval_single
eval_single_NeverDelegates(c, h, point, qinfo, noisy, draw) ==
  LET tv == get_true_val_from_func_at_point(c, point) IN
  IF tv.outcome # "ok" THEN Raise(tv.outcome, h)
  ELSE LET w == eval_single_common_wrap_up(c, h, tv.val, qinfo, noisy, None, draw)
           qid == w.qids[1]
       IN [w EXCEPT !.heap = [w.heap EXCEPT ![qid] = setattr(w.heap[qid], "point", point)],
                    !.fcalls = tv.fcalls]

eval_single(c, h, point, qinfo, noisy, draw) ==
  IF c.is_mf THEN eval_at_fidel_single(c, h, c.fidel_to_opt, point, qinfo, noisy, draw)
  ELSE LET tv == get_true_val_from_func_at_point(c, point) IN
    IF tv.outcome # "ok" THEN Raise(tv.outcome, h)
    ELSE LET w == eval_single_common_wrap_up(c, h, tv.val, qinfo, noisy, None, draw)
             qid == w.qids[1]
         IN [w EXCEPT !.heap = [w.heap EXCEPT ![qid] = setattr(w.heap[qid], "point", point)],
                      !.fcalls = tv.fcalls]

\* The loop of eval_multiple from index i on; acc is the result so far.
RECURSIVE eval_multiple_loop(_, _, _, _, _, _, _)
eval_multiple_loop(c, acc, points, qinfos, noisy, draws, i) ==
  IF i > Len(points) \/ acc.outcome # "ok" THEN acc
  ELSE LET r == eval_single(c, acc.heap, points[i], qinfos[i], noisy, draws[i]) IN
    eval_multiple_loop(c,
      IF r.outcome # "ok" THEN [acc EXCEPT !.outcome = r.outcome]
      ELSE EvalRes("ok", acc.vals \o r.vals, acc.qids \o r.qids, r.heap,
                   acc.fcalls \o r.fcalls, acc.ccalls \o r.ccalls,
                   acc.draws \o r.draws),
      points, qinfos, noisy, draws, i + 1)

\* A batch that raised returns nothing: the records it created are lost, the
\* records it was handed stay as the iterations before the error left them
\* (qids then lists the handed records those iterations wrote).
BatchEnd(h, r) ==
  IF r.outcome = "ok" THEN r
  ELSE [r EXCEPT !.vals = <<>>,
                 !.qids = SelectSeq(r.qids, LAMBDA k : k <= Len(h)),
                 !.heap = SubSeq(r.heap, 1, Len(h))]

Reverse(s) == [i \in DOMAIN s |-> s[Len(s) + 1 - i]]

\* FunctionCaller.eval_multiple
eval_multiple_Backwards(c, h, points, qinfos, noisy, draws) ==
  LET qs == IF qinfos = None THEN [i \in DOMAIN points |-> 0] ELSE qinfos IN
  BatchEnd(h, eval_multiple_loop(c, EvalRes("ok", <<>>, <<>>, h, <<>>, <<>>, <<>>),
                                 Reverse(points), Reverse(qs), noisy, draws, 1))

eval_multiple(c, h, points, qinfos, noisy, draws) ==
  LET qs == IF qinfos = None THEN [i \in DOMAIN points |-> 0] ELSE qinfos IN
  BatchEnd(h, eval_multiple_loop(c, EvalRes("ok", <<>>, <<>>, h, <<>>, <<>>, <<>>),
                                 points, qs, noisy, draws, 1))

\* The loop of eval_at_fidel_multiple from index i on.
RECURSIVE eval_at_fidel_multiple_loop(_, _, _, _, _, _, _, _)
eval_at_fidel_multiple_loop(c, acc, fidels, points, qinfos, noisy, draws, i) ==
  IF i > Len(points) \/ acc.outcome # "ok" THEN acc
  ELSE LET r == eval_at_fidel_single(c, acc.heap, fidels[i], points[i], qinfos[i],
                                     noisy, draws[i]) IN
    eval_at_fidel_multiple_loop(c,
      IF r.outcome # "ok" THEN [acc EXCEPT !.outcome = r.outcome]
      ELSE EvalRes("ok", acc.vals \o r.vals, acc.qids \o r.qids, r.heap,
                   acc.fcalls \o r.fcalls, acc.ccalls \o r.ccalls,
                   acc.draws \o r.draws),
      fidels, points, qinfos, noisy, draws, i + 1)

\* FunctionCaller.eval_at_fidel_multiple
eval_at_fidel_multiple(c, h, fidels, points, qinfos, noisy, draws) ==
  LET qs == IF qinfos = None THEN [i \in DOMAIN points |-> 0] ELSE qinfos IN
  BatchEnd(h, eval_at_fidel_multiple_loop(c,
                EvalRes("ok", <<>>, <<>>, h, <<>>, <<>>, <<>>),
                fidels, points, qs, noisy, draws, 1))

\* FunctionCaller.eval_from_qinfo: it hands back the record alone.
eval_from_qinfo_ByCallerMode(c, h, qinfo, noisy, draw) ==
  LET r == IF ~c.is_mf
             THEN eval_single(c, h, h[qinfo].point, qinfo, noisy, draw)
             ELSE eval_at_fidel_single(c, h, c.fidel_to_opt, h[qinfo].point,
                                       qinfo, noisy, draw)
  IN [r EXCEPT !.vals = <<>>]

eval_from_qinfo(c, h, qinfo, noisy, draw) ==
  LET r == IF ~hasattr(h[qinfo], "fidel")
             THEN eval_single(c, h, h[qinfo].point, qinfo, noisy, draw)
             ELSE eval_at_fidel_single(c, h, h[qinfo].fidel, h[qinfo].point,
                                       qinfo, noisy, draw)
  IN [r EXCEPT !.vals = <<>>]

\* ------------------------------------------------------------------ cost
\* _get_true_cost_from_fidel_cost_func_at_fidel, of the class of c.  A caller
\* that is not multi-fidelity has neither fidel_cost_func nor raw_fidel_space.
get_true_cost_from_fidel_cost_func_at_fidel(c, fidel) ==
  IF ~c.is_mf THEN [outcome |-> "AttributeError", val |-> 0, ccalls |-> <<>>]
  ELSE IF c.cls = "EuclideanFunctionCaller"
    THEN LET raw_fidel_coords == get_raw_fidel_coords(c, fidel) IN
         IF ~IsAMember(c.raw_fidel_space, raw_fidel_coords)
           THEN [outcome |-> "AssertionError", val |-> 0, ccalls |-> <<>>]
           ELSE [outcome |-> "ok",
                 val |-> ApplyCostFunc(c.fidel_cost_func, raw_fidel_coords),
                 ccalls |-> <<CCall(raw_fidel_coords,
                                    IF c.vectorised THEN "col" ELSE "flat")>>]
    ELSE [outcome |-> "ok", val |-> ApplyCostFunc(c.fidel_cost_func, fidel),
          ccalls |-> <<CCall(fidel, "flat")>>]

\* FunctionCaller.cost_single
cost_single(c, fidel) == get_true_cost_from_fidel_cost_func_at_fidel(c, fidel)

\* FunctionCaller.cost_multiple: vals are the costs, in the order of fidels.
RECURSIVE cost_multiple(_, _)
cost_multiple(c, fidels) ==
  IF fidels = <<>> THEN [outcome |-> "ok", vals |-> <<>>, ccalls |-> <<>>]
  ELSE LET r == get_true_cost_from_fidel_cost_func_at_fidel(c, Head(fidels)) IN
    IF r.outcome # "ok"
      THEN [outcome |-> r.outcome, vals |-> <<>>, ccalls |-> <<>>]
      ELSE LET rest == cost_multiple(c, Tail(fidels)) IN
        IF rest.outcome # "ok" THEN rest
        ELSE [outcome |-> "ok", vals |-> <<r.val>> \o rest.vals,
              ccalls |-> r.ccalls \o rest.ccalls]

\* A quotient of two costs is kept as the pair <<numerator, denominator>>.
Ratio(n, d) == <<n, d>>

\* 1.0
One == Ratio(1, 1)

RatioLess(r, s) ==
  IF (r[2] > 0) = (s[2] > 0) THEN r[1] * s[2] < s[1] * r[2]
  ELSE r[1] * s[2] > s[1] * r[2]

RatioEq(r, s) == r[1] * s[2] = s[1] * r[2]

\* FunctionCaller.cost_ratio_single.  fidel_denominator None is the default.
cost_ratio_single(c, fidel_numerator, fidel_denominator) ==
  IF fidel_denominator = None /\ ~c.is_mf
    THEN [outcome |-> "AttributeError", vals |-> <<>>, ccalls |-> <<>>]
  ELSE LET den == IF fidel_denominator = None THEN c.fidel_to_opt
                  ELSE fidel_denominator
           n == cost_single(c, fidel_numerator)
           d == cost_single(c, den) IN
    IF n.outcome # "ok" THEN [outcome |-> n.outcome, vals |-> <<>>, ccalls |-> <<>>]
    ELSE IF d.outcome # "ok" THEN [outcome |-> d.outcome, vals |-> <<>>, ccalls |-> <<>>]
    ELSE IF d.val = 0 THEN [outcome |-> "ZeroDivisionError", vals |-> <<>>, ccalls |-> <<>>]
    ELSE [outcome |-> "ok", vals |-> <<Ratio(n.val, d.val)>>,
          ccalls |-> n.ccalls \o d.ccalls]

\* FunctionCaller.cost_ratio_multiple
cost_ratio_multiple(c, fidels_numerator, fidel_denominator) ==
  IF fidel_denominator = None /\ ~c.is_mf
    THEN [outcome |-> "AttributeError", vals |-> <<>>, ccalls |-> <<>>]
  ELSE LET den == IF fidel_denominator = None THEN c.fidel_to_opt
                  ELSE fidel_denominator
           n == cost_multiple(c, fidels_numerator)
           d == IF n.outcome = "ok" THEN cost_single(c, den)
                ELSE [outcome |-> n.outcome, val |-> 0, ccalls |-> <<>>] IN
    IF d.outcome # "ok" THEN [outcome |-> d.outcome, vals |-> <<>>, ccalls |-> <<>>]
    ELSE IF d.val = 0 /\ n.vals # <<>>
      THEN [outcome |-> "ZeroDivisionError", vals |-> <<>>, ccalls |-> <<>>]
    ELSE [outcome |-> "ok",
          vals |-> [i \in DOMAIN n.vals |-> Ratio(n.vals[i], d.val)],
          ccalls |-> n.ccalls \o d.ccalls]

\* ------------------------------------------------------------ candidates
\* What a candidate query hands back: cands the fidelities, vals the ratios.
CandRes(outcome, cands, vals, ccalls) ==
  [outcome |-> outcome, cands |-> cands, vals |-> vals, ccalls |-> ccalls]

\* np.linspace(0, 1, NumLinspace).reshape((-1, 1))
Linspace == [k \in 1..NumLinspace |-> <<((k - 1) * Grid) \div (NumLinspace - 1)>>]

\* The cell centre (i + 0.5) / n.
CellCentre(i, n) == ((2 * i + 1) * Grid) \div (2 * n)

\* (np.indices((n, n)).reshape(2, -1).T + 0.5) / n: row k is cell (k / n, k % n).
Grid2 ==
  [k \in 1..(NumPerDim2 * NumPerDim2) |->
     <<CellCentre((k - 1) \div NumPerDim2, NumPerDim2),
       CellCentre((k - 1) % NumPerDim2, NumPerDim2)>>]

\* (np.indices((n, n, n)).reshape(3, -1).T + 0.5) / n
Grid3 ==
  [k \in 1..(NumPerDim3 * NumPerDim3 * NumPerDim3) |->
     <<CellCentre((k - 1) \div (NumPerDim3 * NumPerDim3), NumPerDim3),
       CellCentre(((k - 1) \div NumPerDim3) % NumPerDim3, NumPerDim3),
       CellCentre((k - 1) % NumPerDim3, NumPerDim3)>>]

\* The values np.random.random() is given: 0.0 and the largest below 1.0.
RandCoords == {0, Grid - 1}

\* How many rows np.random.random((n, dim)) is asked for, by dimensionality.
NumRand(dim) == IF dim <= 2 THEN 0 ELSE IF dim = 3 THEN NumRand3 ELSE NumRand4

\* The matrices np.random.random((NumRand(dim), dim)) can hand back.
RandomMatrices(dim) == [1..NumRand(dim) -> [1..dim -> RandCoords]]

\* The normalised candidates, by dimensionality of the fidelity space.
norm_candidates(dim, rnd) ==
  IF dim = 1 THEN Linspace
  ELSE IF dim = 2 THEN Grid2
  ELSE IF dim = 3 THEN Grid3 \o rnd
  ELSE rnd

\* The indices np.where(costs < limit)[0] keeps, applied to cands.
RECURSIVE FilterBelow(_, _, _)
FilterBelow(cands, costs, limit) ==
  IF cands = <<>> THEN <<>>
  ELSE (IF costs[1] < limit THEN <<cands[1]>> ELSE <<>>)
       \o FilterBelow(Tail(cands), Tail(costs), limit)

\* EuclideanFunctionCaller._child_get_candidate_fidels.  With normalisation
\* disabled the local candidates is read before it is assigned.
Euclidean_child_get_candidate_fidels(c, filter_by_cost, rnd) ==
  LET norm == norm_candidates(DomainDim(c.fidel_space), rnd) IN
  IF ~c.domain_is_normalised THEN CandRes("UnboundLocalError", <<>>, <<>>, <<>>)
  ELSE IF ~filter_by_cost
    THEN CandRes("ok", Append(norm, c.fidel_to_opt), <<>>, <<>>)
  ELSE LET fidel_costs == cost_multiple(c, norm)
           opt == cost_single(c, c.fidel_to_opt) IN
    IF fidel_costs.outcome # "ok" THEN CandRes(fidel_costs.outcome, <<>>, <<>>, <<>>)
    ELSE IF opt.outcome # "ok" THEN CandRes(opt.outcome, <<>>, <<>>, <<>>)
    ELSE CandRes("ok",
                 Append(FilterBelow(norm, fidel_costs.vals, opt.val), c.fidel_to_opt),
                 <<>>, fidel_costs.ccalls \o opt.ccalls)

\* _child_get_candidate_fidels, of the class of c.
child_get_candidate_fidels(c, filter_by_cost, rnd) ==
  IF c.cls = "EuclideanFunctionCaller"
    THEN Euclidean_child_get_candidate_fidels(c, filter_by_cost, rnd)
    ELSE CandRes("NotImplementedError", <<>>, <<>>, <<>>)

\* FunctionCaller.get_candidate_fidels
get_candidate_fidels(c, filter_by_cost, rnd) ==
  IF ~c.is_mf THEN CandRes("CalledMultiFidelOnSingleFidelCaller", <<>>, <<>>, <<>>)
  ELSE child_get_candidate_fidels(c, filter_by_cost, rnd)

\* The indices np.where(ratios < 1.0)[0] keeps, applied to xs.
RECURSIVE FilterRatios(_, _)
FilterRatios(xs, ratios) ==
  IF xs = <<>> THEN <<>>
  ELSE (IF RatioLess(ratios[1], One) THEN <<xs[1]>> ELSE <<>>)
       \o FilterRatios(Tail(xs), Tail(ratios))

\* FunctionCaller.get_candidate_fidels_and_cost_ratios
get_candidate_fidels_and_cost_ratios(c, filter_by_cost, rnd) ==
  LET got == get_candidate_fidels(c, FALSE, rnd) IN
  IF got.outcome # "ok" THEN got
  ELSE LET r == cost_ratio_multiple(c, got.cands, None) IN
    IF r.outcome # "ok" THEN CandRes(r.outcome, <<>>, <<>>, <<>>)
    ELSE IF filter_by_cost
      THEN CandRes("ok", Append(FilterRatios(got.cands, r.vals), c.fidel_to_opt),
                   Append(FilterRatios(r.vals, r.vals), One), r.ccalls)
      ELSE CandRes("ok", got.cands, r.vals, r.ccalls)

\* -------------------------------------------------- the other fidelity tests
SqDist(a, b) == SumSeq([i \in DOMAIN a |-> (a[i] - b[i]) * (a[i] - b[i])])

\* fidel_space_diam, squared: the norm of bounds[:, 1] - bounds[:, 0].
fidel_space_diam_sq(c) ==
  SumSeq([i \in DOMAIN c.fidel_space |->
            (c.fidel_space[i][2] - c.fidel_space[i][1])
            * (c.fidel_space[i][2] - c.fidel_space[i][1])])

\* is_fidel_to_opt, of the class of c.  The base class builds its exception
\* without the argument the constructor requires; the Euclidean override
\* reads fidel_to_opt whatever the mode.
is_fidel_to_opt(c, fidel) ==
  IF c.cls = "EuclideanFunctionCaller"
    THEN IF ~c.is_mf THEN [outcome |-> "AttributeError", flag |-> FALSE]
         ELSE [outcome |-> "ok",
               flag |-> FidelTolInv * FidelTolInv * SqDist(fidel, c.fidel_to_opt)
                        < fidel_space_diam_sq(c)]
    ELSE IF ~c.is_mf THEN [outcome |-> "TypeError", flag |-> FALSE]
         ELSE [outcome |-> "ok", flag |-> fidel = c.fidel_to_opt]

\* get_information_gap, of the class of c: each gap squared, as a quotient.
get_information_gap(c, fidels) ==
  IF c.cls = "EuclideanFunctionCaller"
    THEN IF ~c.is_mf
      THEN [outcome |-> "CalledMultiFidelOnSingleFidelCaller", vals |-> <<>>]
      ELSE [outcome |-> "ok",
            vals |-> [i \in DOMAIN fidels |->
                        Ratio(SqDist(fidels[i], c.fidel_to_opt),
                              fidel_space_diam_sq(c))]]
    ELSE [outcome |-> "NotImplementedError", vals |-> <<>>]

\* FunctionCaller.is_mf
is_mf(c) == c.is_mf

\* FunctionCaller.is_noisy
is_noisy(c) == c.is_noisy

\* ------------------------------------------------------- the state machine
\* caller: the caller object the host holds (NoCaller before construction).
\* room:   how many query records the host keeps at once.
\* heap:   the query records the host holds, by id 1..Len(heap).
\* ghost:  per record, how it was first evaluated ("none" while it never
\*         was, "nofidel" when it carried no fidel attribute and went through
\*         eval_single / eval_multiple / eval_from_qinfo, "fidel" otherwise)
\*         and whether eval_at_fidel_single / eval_at_fidel_multiple was ever
\*         handed it with a fidelity other than fidel_to_opt (moved).
\* last:   the latest call of the host: the operation, its arguments, how
\*         many records the host held when it made it, its outcome and what
\*         it handed back and invoked.

\* The constructor arguments of a caller of either class: domain, space and
\* to_opt are raw_domain, raw_fidel_space and raw_fidel_to_opt for the
\* Euclidean class.
CtorArgs(cls, func, vectorised, norm, noise_type, noise_scale, space, cost, to_opt) ==
  [cls |-> cls, func |-> func, vectorised |-> vectorised,
   to_normalise_domain |-> norm, noise_type |-> noise_type,
   noise_scale |-> noise_scale, domain |-> RawSpace(1), space |-> space,
   fidel_cost_func |-> cost, to_opt |-> to_opt]

NoCtor ==
  CtorArgs("None", "None", FALSE, FALSE, "no_noise", None, None, "None", None)

NoArgs ==
  [ctor |-> NoCtor, points |-> <<>>, fidels |-> <<>>, qinfos |-> <<>>,
   noisy |-> FALSE, filter |-> FALSE]

NoCall ==
  [op |-> "none", outcome |-> "ok", args |-> NoArgs, held |-> 0, vals |-> <<>>,
   qids |-> <<>>, fcalls |-> <<>>, ccalls |-> <<>>, draws |-> <<>>,
   cands |-> <<>>, flag |-> FALSE]

NewGhost == [first |-> "none", moved |-> FALSE]

Init ==
  /\ caller = NoCaller
  /\ room \in 1..MaxQinfos
  /\ heap = <<>>
  /\ ghost = <<>>
  /\ last = NoCall

\* The constructor of the class named in a.
Construct_init(a) ==
  IF a.cls = "EuclideanFunctionCaller"
    THEN EuclideanFunctionCaller_init(
           [func |-> a.func, raw_domain |-> a.domain, vectorised |-> a.vectorised,
            to_normalise_domain |-> a.to_normalise_domain,
            noise_type |-> a.noise_type, noise_scale |-> a.noise_scale,
            raw_fidel_space |-> a.space, fidel_cost_func |-> a.fidel_cost_func,
            raw_fidel_to_opt |-> a.to_opt])
    ELSE FunctionCaller_init(
           [func |-> a.func, domain |-> a.domain, noise_type |-> a.noise_type,
            noise_scale |-> a.noise_scale, fidel_space |-> a.space,
            fidel_cost_func |-> a.fidel_cost_func, fidel_to_opt |-> a.to_opt],
           BasePre)

\* The host builds its caller; a constructor that raises leaves it without one.
Construct(a) ==
  /\ caller.cls = "None"
  /\ LET r == Construct_init(a) IN
       /\ caller' = r.obj
       /\ last' = [NoCall EXCEPT !.op = "__init__", !.outcome = r.outcome,
                                 !.args.ctor = a]
  /\ UNCHANGED <<room, heap, ghost>>

\* The ghost of record k after an evaluation through op wrote it.
GhostAfter(op, fidel, h, g, k) ==
  LET old == IF k <= Len(g) THEN g[k] ELSE NewGhost
      at_fidel == op \in {"eval_at_fidel_single", "eval_at_fidel_multiple"}
      carried == k <= Len(h) /\ hasattr(h[k], "fidel")
  IN [first |-> IF old.first # "none" THEN old.first
                ELSE IF at_fidel \/ carried THEN "fidel" ELSE "nofidel",
      moved |-> old.moved \/ (at_fidel /\ fidel # caller.fidel_to_opt)]

\* The ghosts after a call that wrote the records qids (fidels: the
\* fidelities it was handed for them, when it was handed any).
RECURSIVE GhostsAfter(_, _, _, _, _, _)
GhostsAfter(op, fidels, h, g, qids, i) ==
  IF i > Len(qids) THEN g
  ELSE LET k == qids[i]
           ga == GhostAfter(op, IF i <= Len(fidels) THEN fidels[i] ELSE None, h, g, k)
           g2 == IF k <= Len(g) THEN [g EXCEPT ![k] = ga] ELSE Append(g, ga)
       IN GhostsAfter(op, fidels, h, g2, qids, i + 1)

\* The state after an evaluation: r is what the method did.
Evaluated(op, args, r) ==
  /\ heap' = r.heap
  /\ ghost' = SubSeq(GhostsAfter(op, args.fidels, heap, ghost, r.qids, 1), 1, Len(r.heap))
  /\ last' = [NoCall EXCEPT !.op = op, !.outcome = r.outcome, !.args = args,
                            !.held = Len(heap),
                            !.vals = r.vals, !.qids = r.qids,
                            !.fcalls = r.fcalls, !.ccalls = r.ccalls,
                            !.draws = r.draws]
  /\ UNCHANGED <<caller, room>>

\* The state after a query that writes no record.
Queried(op, args, outcome, vals, cands, ccalls, flag) ==
  /\ last' = [NoCall EXCEPT !.op = op, !.outcome = outcome, !.args = args,
                            !.held = Len(heap),
                            !.vals = vals, !.cands = cands, !.ccalls = ccalls,
                            !.flag = flag]
  /\ UNCHANGED <<caller, room, heap, ghost>>

\* What the host passes.
\* The points the host asks about: the two corners of the public domain of c
\* and, one at a time, a point beyond it.
Corners(c) == {<<c.domain[1][1]>>, <<c.domain[1][2]>>}

Points(c) == Corners(c) \cup {<<c.domain[1][2] + Grid>>}

LowFidel(c) == [i \in DOMAIN c.fidel_space |-> c.fidel_space[i][1]]

Fidels(c) == IF c.is_mf THEN {c.fidel_to_opt, LowFidel(c)} ELSE {<<Grid>>}

\* The variates np.random can hand to the noise adder of c.
NoiseDraws(c) == IF c.is_noisy THEN {0, 1} ELSE {0}

\* A record argument: None (0, a new record is made) or a record held.
QinfoArgs == {q \in 0..Len(heap) : q = 0 => Len(heap) < room}

\* The record arguments of a batch of n: None, or n records held.
QinfosArgs(n) ==
  {qs \in {None} \cup [1..n -> 1..Len(heap)] : qs = None => Len(heap) + n <= room}

\* The batches over S the host hands in: as long as the records it keeps.
Batches(S) == UNION {[1..n -> S] : n \in 1..room}

Do_is_mf ==
  /\ caller.cls # "None"
  /\ Queried("is_mf", NoArgs, "ok", <<>>, <<>>, <<>>, is_mf(caller))

Do_is_fidel_to_opt ==
  /\ caller.cls # "None"
  /\ \E f \in Fidels(caller) :
       LET r == is_fidel_to_opt(caller, f) IN
       Queried("is_fidel_to_opt", [NoArgs EXCEPT !.fidels = <<f>>],
               r.outcome, <<>>, <<>>, <<>>, r.flag)

Do_eval_single ==
  /\ caller.cls # "None"
  /\ \E p \in Points(caller), q \in QinfoArgs, noisy \in BOOLEAN, d \in NoiseDraws(caller) :
       Evaluated("eval_single",
                 [NoArgs EXCEPT !.points = <<p>>, !.qinfos = <<q>>, !.noisy = noisy],
                 eval_single(caller, heap, p, q, noisy, d))

Do_eval_at_fidel_single ==
  /\ caller.cls # "None"
  /\ \E f \in Fidels(caller), p \in Points(caller), q \in QinfoArgs, noisy \in BOOLEAN,
        d \in NoiseDraws(caller) :
       Evaluated("eval_at_fidel_single",
                 [NoArgs EXCEPT !.points = <<p>>, !.fidels = <<f>>,
                                !.qinfos = <<q>>, !.noisy = noisy],
                 eval_at_fidel_single(caller, heap, f, p, q, noisy, d))

\* A fidelity one cell above the upper corner of the fidelity space of c.
FarFidel(c) == [i \in DOMAIN c.fidel_space |-> c.fidel_space[i][2] + Grid]

\* eval_at_fidel_single, handed a fidelity outside the fidelity space.
Do_eval_outside_fidel_space ==
  /\ caller.cls # "None" /\ caller.is_mf
  /\ \E p \in Corners(caller), q \in QinfoArgs, noisy \in BOOLEAN :
       Evaluated("eval_at_fidel_single",
                 [NoArgs EXCEPT !.points = <<p>>, !.fidels = <<FarFidel(caller)>>,
                                !.qinfos = <<q>>, !.noisy = noisy],
                 eval_at_fidel_single(caller, heap, FarFidel(caller), p, q, noisy, 0))

Do_eval_multiple ==
  /\ caller.cls # "None"
  /\ \E ps \in Batches(Corners(caller)), noisy \in BOOLEAN :
       \E qs \in QinfosArgs(Len(ps)), ds \in [1..Len(ps) -> NoiseDraws(caller)] :
         Evaluated("eval_multiple",
                   [NoArgs EXCEPT !.points = ps, !.qinfos = qs, !.noisy = noisy],
                   eval_multiple(caller, heap, ps, qs, noisy, ds))

Do_eval_at_fidel_multiple ==
  /\ caller.cls # "None"
  /\ \E ps \in Batches(Corners(caller)), noisy \in BOOLEAN :
       \E fs \in [1..Len(ps) -> Fidels(caller)], qs \in QinfosArgs(Len(ps)),
          ds \in [1..Len(ps) -> NoiseDraws(caller)] :
         Evaluated("eval_at_fidel_multiple",
                   [NoArgs EXCEPT !.points = ps, !.fidels = fs, !.qinfos = qs,
                                  !.noisy = noisy],
                   eval_at_fidel_multiple(caller, heap, fs, ps, qs, noisy, ds))

Do_eval_from_qinfo ==
  /\ caller.cls # "None"
  /\ \E q \in 1..Len(heap), noisy \in BOOLEAN, d \in NoiseDraws(caller) :
       Evaluated("eval_from_qinfo",
                 [NoArgs EXCEPT !.qinfos = <<q>>, !.noisy = noisy],
                 eval_from_qinfo(caller, heap, q, noisy, d))

\* The host queues a query: a record with a point and, maybe, a fidelity.
HostMakeQinfo ==
  /\ caller.cls # "None"
  /\ Len(heap) < room
  /\ \E p \in Corners(caller), f \in {None} \cup Fidels(caller) :
       /\ heap' = Append(heap, IF f = None THEN setattr(Namespace, "point", p)
                               ELSE setattr(setattr(Namespace, "point", p), "fidel", f))
       /\ ghost' = Append(ghost, [NewGhost EXCEPT !.moved = f # None /\ f # caller.fidel_to_opt])
  /\ last' = NoCall
  /\ UNCHANGED <<caller, room>>

\* The host drops the records it holds.
HostRelease ==
  /\ heap # <<>>
  /\ heap' = <<>>
  /\ ghost' = <<>>
  /\ last' = NoCall
  /\ UNCHANGED <<caller, room>>

Do_cost_single ==
  /\ caller.cls # "None"
  /\ \E f \in Fidels(caller) :
       LET r == cost_single(caller, f) IN
       Queried("cost_single", [NoArgs EXCEPT !.fidels = <<f>>], r.outcome,
               IF r.outcome = "ok" THEN <<r.val>> ELSE <<>>, <<>>, r.ccalls, FALSE)

Do_cost_ratio_single ==
  /\ caller.cls # "None"
  /\ \E f \in Fidels(caller) :
       LET r == cost_ratio_single(caller, f, None) IN
       Queried("cost_ratio_single", [NoArgs EXCEPT !.fidels = <<f>>], r.outcome,
               r.vals, <<>>, r.ccalls, FALSE)

Do_cost_ratio_multiple ==
  /\ caller.cls # "None"
  /\ \E fs \in Batches(Fidels(caller)) :
       LET r == cost_ratio_multiple(caller, fs, None) IN
       Queried("cost_ratio_multiple", [NoArgs EXCEPT !.fidels = fs], r.outcome,
               r.vals, <<>>, r.ccalls, FALSE)

\* The random matrix a candidate query of c can be handed.
RandomDraws(c) == IF c.is_mf THEN RandomMatrices(DomainDim(c.fidel_space)) ELSE {<<>>}

Do_get_candidate_fidels ==
  /\ caller.cls # "None"
  /\ \E flt \in BOOLEAN, rnd \in RandomDraws(caller) :
       LET r == get_candidate_fidels(caller, flt, rnd) IN
       Queried("get_candidate_fidels", [NoArgs EXCEPT !.filter = flt], r.outcome,
               r.vals, r.cands, r.ccalls, FALSE)

Do_get_candidate_fidels_and_cost_ratios ==
  /\ caller.cls # "None"
  /\ \E flt \in BOOLEAN, rnd \in RandomDraws(caller) :
       LET r == get_candidate_fidels_and_cost_ratios(caller, flt, rnd) IN
       Queried("get_candidate_fidels_and_cost_ratios",
               [NoArgs EXCEPT !.filter = flt], r.outcome,
               r.vals, r.cands, r.ccalls, FALSE)

Do_get_information_gap ==
  /\ caller.cls # "None"
  /\ \E fs \in Batches(Fidels(caller)) :
       LET r == get_information_gap(caller, fs) IN
       Queried("get_information_gap", [NoArgs EXCEPT !.fidels = fs], r.outcome,
               r.vals, <<>>, <<>>, FALSE)

\* ------------------------------------------------------- specifications
Presence(S) == {None} \cup S

\* The noise configurations tried: the kind and the scale.
NoiseConfigs ==
  {<<"no_noise", None>>}
  \cup {<<"gauss", <<s>>>> : s \in 0..MaxNoiseScale}
  \cup {<<"uniform", <<s>>>> : s \in 1..MaxNoiseScale}

\* Callers of both classes under every combination of present and absent
\* fidelity space, cost function and target fidelity.
CtorCtors ==
  {CtorArgs(cls, "lin", FALSE, norm, nz[1], nz[2], space, cost, to_opt) :
     cls \in {"FunctionCaller", "EuclideanFunctionCaller"}, norm \in BOOLEAN,
     nz \in NoiseConfigs,
     space \in Presence({RawSpace(1)}), cost \in {"None", "inc"},
     to_opt \in Presence({<<3 * Grid>>})}

ConstructCtor == \E a \in CtorCtors : Construct(a)

NextCtor ==
  \/ ConstructCtor
  \/ Do_is_mf

SpecCtor == Init /\ [][NextCtor]_vars

\* The callers built without a (whole) multi-fidelity configuration.
ModeCtors ==
  {a \in CtorCtors : a.space = None \/ a.fidel_cost_func = "None" \/ a.to_opt = None}

ConstructMode == \E a \in ModeCtors : Construct(a)

NextMode ==
  \/ ConstructMode
  \/ Do_is_mf
  \/ Do_is_fidel_to_opt
  \/ Do_eval_at_fidel_single
  \/ Do_eval_at_fidel_multiple
  \/ Do_cost_ratio_single
  \/ Do_cost_ratio_multiple
  \/ Do_get_candidate_fidels
  \/ Do_get_candidate_fidels_and_cost_ratios
  \/ Do_get_information_gap

SpecMode == Init /\ [][NextMode]_vars

\* Multi-fidelity callers over fidelity spaces of every dimensionality.
CandCtors ==
  {CtorArgs(cls, "lin", FALSE, norm, "no_noise", None, RawSpace(dim), cost,
            [i \in 1..dim |-> lv * Grid]) :
     cls \in {"FunctionCaller", "EuclideanFunctionCaller"}, norm \in BOOLEAN,
     dim \in 1..MaxDim, cost \in CostFuncs, lv \in {2, 3}}

ConstructCand == \E a \in CandCtors : Construct(a)

NextCand ==
  \/ ConstructCand
  \/ Do_cost_single
  \/ Do_cost_ratio_single
  \/ Do_get_candidate_fidels
  \/ Do_get_candidate_fidels_and_cost_ratios

SpecCand == Init /\ [][NextCand]_vars

\* Callers of every class, mode and noise configuration, evaluating.
EvalCtors ==
  {CtorArgs(cls, "part", FALSE, norm, nz[1], nz[2], mf[1], mf[2], mf[3]) :
     cls \in {"FunctionCaller", "EuclideanFunctionCaller"}, norm \in BOOLEAN,
     nz \in NoiseConfigs,
     mf \in {<<None, "None", None>>, <<RawSpace(1), "inc", <<3 * Grid>>>>}}

ConstructEval == \E a \in EvalCtors : Construct(a)

NextEval ==
  \/ ConstructEval
  \/ HostMakeQinfo
  \/ HostRelease
  \/ Do_eval_single
  \/ Do_eval_multiple
  \/ Do_eval_at_fidel_single
  \/ Do_eval_at_fidel_multiple
  \/ Do_eval_from_qinfo
  \/ Do_cost_single

\* The host of the evaluation runs keeps one record at a time.
InitEval == Init /\ room = 1

SpecEval == InitEval /\ [][NextEval]_vars

\* Callers of every class and mode, evaluating batches.
BatchCtors ==
  {a \in EvalCtors :
     /\ a.noise_type = "no_noise"
     /\ a.cls = "EuclideanFunctionCaller" <=> a.to_normalise_domain}

ConstructBatch == \E a \in BatchCtors : Construct(a)

NextBatch ==
  \/ ConstructBatch
  \/ Do_eval_multiple
  \/ Do_eval_at_fidel_multiple

\* The host of the batch runs keeps as many records as a batch is long.
InitBatch == Init /\ room = MaxQinfos

SpecBatch == InitBatch /\ [][NextBatch]_vars

\* Euclidean callers, noise-free, with a plain and with a vectorised
\* objective, single- and multi-fidelity, normalising or not.
VecCtors ==
  {CtorArgs("EuclideanFunctionCaller", "part", vec, norm, "no_noise", None,
            mf[1], mf[2], mf[3]) :
     vec \in BOOLEAN, norm \in BOOLEAN,
     mf \in {<<None, "None", None>>, <<RawSpace(1), "inc", <<3 * Grid>>>>}}

ConstructVec == \E a \in VecCtors : Construct(a)

NextVec ==
  \/ ConstructVec
  \/ HostRelease
  \/ Do_eval_single
  \/ Do_eval_multiple
  \/ Do_eval_at_fidel_single
  \/ Do_eval_outside_fidel_space
  \/ Do_eval_at_fidel_multiple
  \/ Do_eval_from_qinfo

InitVec == Init /\ room = 1

SpecVec == InitVec /\ [][NextVec]_vars

Next == NextCtor \/ NextMode \/ NextCand \/ NextEval \/ NextBatch \/ NextVec

Spec == Init /\ [][Next]_vars

\* ----------------------------------------------------------------- claims
Present(a) ==
  (IF a.space # None THEN 1 ELSE 0) + (IF a.fidel_cost_func # "None" THEN 1 ELSE 0)
  + (IF a.to_opt # None THEN 1 ELSE 0)

FidelOps ==
  {"is_fidel_to_opt", "eval_at_fidel_single", "eval_at_fidel_multiple",
   "cost_ratio_single", "cost_ratio_multiple", "get_candidate_fidels",
   "get_candidate_fidels_and_cost_ratios", "get_information_gap"}

\* C1: on a caller that is not multi-fidelity is_mf() is false and every
\* fidelity-specific operation raises CalledMultiFidelOnSingleFidelCaller,
\* nothing else.
C1_SingleFidelRejectsFidelOps ==
  (caller.cls # "None" /\ ~caller.is_mf) =>
    /\ last.op = "is_mf" => ~last.flag
    /\ last.op \in FidelOps => last.outcome = "CalledMultiFidelOnSingleFidelCaller"

\* C2: on a multi-fidelity Euclidean caller get_candidate_fidels(point,
\* filter_by_cost=True) returns a sequence that ends with fidel_to_opt and
\* whose other elements all cost strictly less than fidel_to_opt.
C2_CandidatesEndWithTarget ==
  (/\ caller.cls = "EuclideanFunctionCaller" /\ caller.is_mf
   /\ last.op = "get_candidate_fidels" /\ last.args.filter) =>
    /\ last.outcome = "ok"
    /\ last.cands # <<>>
    /\ last.cands[Len(last.cands)] = caller.fidel_to_opt
    /\ \A i \in 1..(Len(last.cands) - 1) :
         cost_single(caller, last.cands[i]).val
           < cost_single(caller, caller.fidel_to_opt).val

\* C3: on a multi-fidelity caller with a candidate hook (the Euclidean one)
\* get_candidate_fidels_and_cost_ratios(point, filter_by_cost=True) returns
\* candidates and ratios of one length, ratios[i] being cost(candidates[i]) /
\* cost(fidel_to_opt); every ratio but the last is below 1.0, the last is 1.0
\* and belongs to fidel_to_opt, which is forced in exactly once.
C3_RatiosAlignedAndFiltered ==
  (/\ caller.cls = "EuclideanFunctionCaller" /\ caller.is_mf
   /\ last.op = "get_candidate_fidels_and_cost_ratios" /\ last.args.filter) =>
    /\ last.outcome = "ok"
    /\ Len(last.cands) = Len(last.vals)
    /\ last.cands # <<>>
    /\ last.cands[Len(last.cands)] = caller.fidel_to_opt
    /\ last.vals[Len(last.vals)] = One
    /\ \A i \in 1..Len(last.cands) :
         RatioEq(last.vals[i],
                 Ratio(cost_single(caller, last.cands[i]).val,
                       cost_single(caller, caller.fidel_to_opt).val))
    /\ \A i \in 1..(Len(last.cands) - 1) : RatioLess(last.vals[i], One)

\* C7: construction succeeds iff the fidelity space, the cost function and
\* the target fidelity are all given or all absent; a partial combination
\* raises ValueError and leaves no caller; after a success is_mf() is true
\* iff all three were given.
C7_AllOrNothingConstruction ==
  /\ last.op = "__init__" =>
       /\ last.outcome = "ok" <=> Present(last.args.ctor) \in {0, 3}
       /\ Present(last.args.ctor) \in {1, 2} =>
            last.outcome = "ValueError" /\ caller.cls = "None"
       /\ last.outcome = "ok" =>
            (caller.cls # "None" /\ (is_mf(caller) <=> Present(last.args.ctor) = 3))
  /\ last.op = "is_mf" => (last.flag <=> caller.is_mf)

EvalOps ==
  {"eval_single", "eval_multiple", "eval_at_fidel_single",
   "eval_at_fidel_multiple", "eval_from_qinfo"}

\* What the objective returned on the invocation fc.
TrueValOf(fc) == ApplyFunc(caller.func, fc.fidel, fc.point)

\* The record of the i-th evaluation of the latest call was written again by
\* a later evaluation of that call (a batch handed one record twice).
LaterWritten(l, i) == \E j \in (i + 1)..Len(l.qids) : l.qids[j] = l.qids[i]

\* C4: on every evaluation path, when the objective returns the error
\* sentinel the value handed back, qinfo.val and qinfo.true_val are the
\* sentinel and no noise variate is drawn, whatever the noise configuration
\* and the noisy flag.
C4_SentinelPropagates ==
  (last.op \in EvalOps /\ last.outcome = "ok") =>
    \A i \in DOMAIN last.fcalls :
      TrueValOf(last.fcalls[i]) = EVAL_ERROR_CODE =>
        /\ last.draws[i] = <<>>
        /\ last.op # "eval_from_qinfo" => last.vals[i] = EVAL_ERROR_CODE
        /\ ~LaterWritten(last, i) =>
             /\ heap[last.qids[i]].val = EVAL_ERROR_CODE
             /\ heap[last.qids[i]].true_val = EVAL_ERROR_CODE

C4_Witness ==
  /\ last.op = "eval_at_fidel_multiple" /\ last.outcome = "ok"
  /\ caller.noise_type = "gauss" /\ caller.noise_scale = <<1>> /\ last.args.noisy
  /\ last.args.qinfos # None
  /\ TrueValOf(last.fcalls[1]) = EVAL_ERROR_CODE
  /\ heap[last.qids[1]].val = EVAL_ERROR_CODE

\* C5: on a multi-fidelity caller eval_single(point, qinfo, noisy) does what
\* eval_at_fidel_single(fidel_to_opt, point, qinfo, noisy) does: the same
\* outcome, objective invocation and value (for some noise draw) and the same
\* point, true_val, val and caller_eval_cost in the record.
C5_EvalSingleIsEvalAtTarget ==
  (last.op = "eval_single" /\ caller.is_mf) =>
    \E d \in NoiseDraws(caller) :
      LET r == eval_at_fidel_single(caller, <<>>, caller.fidel_to_opt,
                                    last.args.points[1], 0, last.args.noisy, d)
      IN /\ r.outcome = last.outcome
         /\ r.vals = last.vals
         /\ r.fcalls = last.fcalls
         /\ r.draws = last.draws
         /\ r.outcome = "ok" =>
              \A fld \in {"point", "true_val", "val", "caller_eval_cost"} :
                heap[last.qids[1]][fld] = r.heap[1][fld]

C5_Witness ==
  /\ last.op = "eval_single" /\ last.outcome = "ok" /\ caller.is_mf
  /\ last.draws[1] # <<>>
  /\ heap[last.qids[1]].true_val # EVAL_ERROR_CODE

\* C6: a batch of n inputs that returns hands back n values and n records;
\* the i-th objective invocation, value and record are those of the i-th
\* input, the record being the i-th supplied one, or a new one of its own
\* when none were supplied.
C6_BatchInOrder ==
  (last.op \in {"eval_multiple", "eval_at_fidel_multiple"} /\ last.outcome = "ok") =>
    LET a == last.args
        n == Len(a.points)
    IN /\ Len(last.vals) = n /\ Len(last.qids) = n /\ Len(last.fcalls) = n
       /\ \A i \in 1..n : \E d \in NoiseDraws(caller) :
            LET one == IF last.op = "eval_multiple"
                         THEN eval_single(caller, <<>>, a.points[i], 0, a.noisy, d)
                         ELSE eval_at_fidel_single(caller, <<>>, a.fidels[i],
                                                   a.points[i], 0, a.noisy, d)
            IN /\ last.fcalls[i] = one.fcalls[1]
               /\ last.vals[i] = one.vals[1]
               /\ last.qids[i] = IF a.qinfos = None THEN last.held + i
                                 ELSE a.qinfos[i]
               /\ ~LaterWritten(last, i) =>
                    \A fld \in DOMAIN one.heap[1] :
                      heap[last.qids[i]][fld] = one.heap[1][fld]

C6_Witness ==
  /\ last.op = "eval_at_fidel_multiple" /\ last.outcome = "ok"
  /\ Len(last.args.points) = 2
  /\ last.args.points[1] # last.args.points[2]
  /\ last.args.fidels[1] # last.args.fidels[2]
  /\ last.args.qinfos = <<2, 1>>
  /\ last.vals[1] # last.vals[2]

\* The variate the noise adder of c makes of what np.random handed it.
Variate(c, draw) == IF c.noise_type = "gauss" THEN draw ELSE draw - Half

\* C8, per call: when the true value is not the sentinel, with noisy=False or
\* a no_noise caller the observed value is the true value and nothing is
\* drawn; otherwise it is the true value plus one variate times noise_scale.
C8_NoisePolicy ==
  (last.op \in EvalOps /\ last.outcome = "ok") =>
    \A i \in DOMAIN last.fcalls :
      LET tv == TrueValOf(last.fcalls[i])
          Observed(v) ==
            /\ last.op # "eval_from_qinfo" => last.vals[i] = v
            /\ ~LaterWritten(last, i) =>
                 /\ heap[last.qids[i]].val = v
                 /\ heap[last.qids[i]].true_val = tv
      IN tv # EVAL_ERROR_CODE =>
           IF ~last.args.noisy \/ ~is_noisy(caller)
             THEN last.draws[i] = <<>> /\ Observed(tv)
             ELSE /\ Len(last.draws[i]) = 1
                  /\ Observed(tv + caller.noise_scale[1]
                                   * Variate(caller, last.draws[i][1]))
                  /\ caller.noise_scale = <<0>> => Observed(tv)

\* C8, across calls: two eval_single calls with noisy=False at one point hand
\* back the same val and true_val.
C8_Idempotent ==
  (/\ last.op = "eval_single" /\ last.outcome = "ok" /\ ~last.args.noisy
   /\ last'.op = "eval_single" /\ last'.outcome = "ok" /\ ~last'.args.noisy
   /\ last'.args.points = last.args.points /\ caller' = caller) =>
    /\ last'.vals = last.vals
    /\ heap'[last'.qids[1]].val = heap[last.qids[1]].val
    /\ heap'[last'.qids[1]].true_val = heap[last.qids[1]].true_val

\* C8: the noise policy of every evaluation, and the idempotence of noiseless
\* evaluation that follows from it.
C8_NoisePolicyAndIdempotence == [][C8_NoisePolicy' /\ C8_Idempotent]_vars

C8_Witness ==
  /\ last.op = "eval_single" /\ last.outcome = "ok"
  /\ caller.noise_type = "uniform" /\ caller.noise_scale = <<1>>
  /\ last.args.noisy /\ last.draws = <<<<0>>>>
  /\ heap[last.qids[1]].val = heap[last.qids[1]].true_val - Half

\* The dispatch of eval_from_qinfo: by the fidel attribute of the record.
C9_Dispatch ==
  last'.op = "eval_from_qinfo" =>
    LET q == last'.args.qinfos[1]
        rec == heap[q]
    IN \E d \in NoiseDraws(caller) :
         LET r == IF hasattr(rec, "fidel")
                    THEN eval_at_fidel_single(caller, heap, rec.fidel, rec.point,
                                              q, last'.args.noisy, d)
                    ELSE eval_single(caller, heap, rec.point, q, last'.args.noisy, d)
         IN /\ last'.outcome = r.outcome
            /\ last'.fcalls = r.fcalls
            /\ heap' = r.heap
            /\ r.outcome = "ok" => last'.qids = <<q>>
            /\ (hasattr(rec, "fidel") /\ ~caller.is_mf) =>
                 last'.outcome = "CalledMultiFidelOnSingleFidelCaller"

\* The latest call evaluated record q at the target fidelity.
AtTarget(q) ==
  /\ heap'[q].fidel = caller.fidel_to_opt
  /\ \A i \in DOMAIN last'.fcalls :
       last'.fcalls[i].fidel
         = (IF caller.cls = "EuclideanFunctionCaller"
              THEN get_raw_fidel_coords(caller, caller.fidel_to_opt)
              ELSE caller.fidel_to_opt)

\* C9 as stated: eval_from_qinfo dispatches on the fidel attribute of the
\* record, and on a multi-fidelity caller a record first evaluated without a
\* fidelity is evaluated at fidel_to_opt by every later eval_from_qinfo.
C9_Step_AsStated ==
  /\ C9_Dispatch
  /\ (/\ last'.op = "eval_from_qinfo" /\ last'.outcome = "ok" /\ caller.is_mf
      /\ ghost[last'.args.qinfos[1]].first = "nofidel") =>
       AtTarget(last'.args.qinfos[1])

C9_AsStated == [][C9_Step_AsStated]_vars

\* C9, amended: the same, for the records that eval_at_fidel_single and
\* eval_at_fidel_multiple were not handed with another fidelity since.
C9_Step ==
  /\ C9_Dispatch
  /\ (/\ last'.op = "eval_from_qinfo" /\ last'.outcome = "ok" /\ caller.is_mf
      /\ ghost[last'.args.qinfos[1]].first = "nofidel"
      /\ ~ghost[last'.args.qinfos[1]].moved) =>
       AtTarget(last'.args.qinfos[1])

C9_DispatchOnFidelAttribute == [][C9_Step]_vars

C9_Witness ==
  /\ last.op = "eval_from_qinfo" /\ last.outcome = "ok" /\ caller.is_mf
  /\ ghost[last.args.qinfos[1]].first = "nofidel"
  /\ ~ghost[last.args.qinfos[1]].moved
  /\ hasattr(heap[last.args.qinfos[1]], "cost_at_fidel")

\* C10: on a normalised multi-fidelity Euclidean caller the cost function is
\* always handed raw coordinates, so the cost_at_fidel an evaluation records
\* is cost_single of the fidelity it records.
C10_CostFuncGetsRawFidel ==
  (/\ caller.cls = "EuclideanFunctionCaller" /\ caller.domain_is_normalised
   /\ caller.is_mf /\ last.outcome = "ok") =>
    /\ last.op = "cost_single" =>
         last.ccalls[1].fidel = get_raw_fidel_coords(caller, last.args.fidels[1])
    /\ last.op \in {"eval_single", "eval_at_fidel_single", "eval_from_qinfo"} =>
         LET q == heap[last.qids[1]] IN
         /\ last.ccalls[1].fidel = get_raw_fidel_coords(caller, q.fidel)
         /\ q.cost_at_fidel = cost_single(caller, q.fidel).val

\* The fidelity the i-th evaluation of the latest call was asked for, in the
\* caller's public coordinates: the one handed in on the fidelity path, the
\* target fidelity when a multi-fidelity caller is asked through eval_single
\* or eval_multiple, None on the single-fidelity path.
AskedFidel(l, i) ==
  IF l.op \in {"eval_at_fidel_single", "eval_at_fidel_multiple"} THEN l.args.fidels[i]
  ELSE IF caller.is_mf THEN caller.fidel_to_opt ELSE None

\* C11: in a Euclidean caller the objective is invoked only on the point
\* (and the fidelity, on the fidelity path) unnormalised to raw coordinates
\* and inside the raw domain (the raw fidelity space), and a caller built
\* with vectorised=True hands the objective these coordinates reshaped to
\* column vectors, on the single-fidelity path and on the fidelity path.
C11_ObjectiveGetsCheckedRawCoords ==
  (caller.cls = "EuclideanFunctionCaller" /\ last.op \in EvalOps) =>
    \A i \in DOMAIN last.fcalls :
      LET fc == last.fcalls[i] IN
      /\ IsAMember(caller.raw_domain, fc.point)
      /\ fc.fidel # None => IsAMember(caller.raw_fidel_space, fc.fidel)
      /\ last.op # "eval_from_qinfo" =>
           /\ fc.point = get_raw_domain_coords(caller, last.args.points[i])
           /\ fc.fidel = IF AskedFidel(last, i) = None THEN None
                          ELSE get_raw_fidel_coords(caller, AskedFidel(last, i))
      /\ caller.vectorised =>
           /\ fc.pshape = "col"
           /\ fc.fidel # None => fc.fshape = "col"

====
